---- MODULE Spec2Model ----
(***************************************************************************)
(* Model of the fraud investigation / explanation agents:                  *)
(*   src/src/agents/investigation_agent.py  (InvestigationAgent)           *)
(*   src/src/agents/explanation_agent.py    (ExplanationAgent)             *)
(*   src/src/utils/llm_client.py            (LLMClient)                    *)
(* The data source (claims, providers, patients, fraud_flags) is read-only *)
(* for the agents; its content is chosen in Init.  Every data-access       *)
(* helper opens a sqlite connection, runs its queries and closes the       *)
(* connection; a query may raise (pandas DatabaseError).  The model        *)
(* backend either answers with a text, answers with a null content,        *)
(* answers with no choices, or cannot be reached.                          *)
(***************************************************************************)
EXTENDS Integers, Sequences, FiniteSets, TLC

\* ------------------------------------------------------------------ bounds
MaxClaim == 2
MaxBatch == 2
MaxLimit == 2
MaxOpen == 1

\* ------------------------------------------------- program constants
\* temperatures in tenths: 0.3 and 0.7
AnalyzeTemperature == 3
ExplainTemperature == 7
RecentLimit == 10

\* ------------------------------------------------------------ input data
ClaimIds == 1..MaxClaim
ProviderIds == {"P1"}
PatientIds == {"U1"}
Scores == {70, 90}
NoRow == [absent |-> TRUE]

\* a row of table claims (SELECT * FROM claims)
ClaimRow(c) ==
    [claim_id |-> c, claim_amount |-> 15000, claim_date |-> c,
     provider_id |-> "P1", patient_id |-> "U1",
     provider_specialty |-> "Cardiology", procedure_code |-> "99213",
     diagnosis_code |-> "I10", status |-> "submitted"]

\* a row of table providers
ProviderRow(p) ==
    [provider_id |-> p, total_claims |-> 5, avg_claim_amount |-> 1200,
     total_billed |-> 6000, fraud_claims |-> 1]

\* a row of table patients
PatientRow(u) ==
    [patient_id |-> u, total_claims |-> 3, total_spent |-> 900,
     fraud_claims |-> 0]

\* the rows table fraud_flags may hold for claim c
FlagRows(c) ==
    {[claim_id |-> c, fraud_detected |-> 0, fraud_score |-> 10,
      rules_triggered |-> "", explanation |-> "none"]}
    \cup
    {[claim_id |-> c, fraud_detected |-> 1, fraud_score |-> s,
      rules_triggered |-> "high_amount,duplicate_billing",
      explanation |-> "amount far above specialty average"] : s \in Scores}

\* what the completion service may do with one request
ModelOutcomes == {"text", "null_content", "no_choices", "unreachable"}

VARIABLES
    claims,       \* table claims: claim_id -> row or NoRow
    providers,    \* table providers: provider_id -> row or NoRow
    patients,     \* table patients: patient_id -> row or NoRow
    fraud_flags,  \* table fraud_flags: claim_id -> row or NoRow
    pc,           \* "idle", "report_loop", "top_loop", "returned", "raised"
    op,           \* the public method in progress or last finished
    claim_ids,    \* generate_fraud_report / single call: the input ids
    limit,        \* investigate_top_cases: its argument
    top_cases,    \* investigate_top_cases: the ranked claim ids read
    idx,          \* position of the for loop (1-based)
    results,      \* the list being built (report / results)
    retval,       \* value returned by the finished method
    error,        \* exception that left the method ("" when none)
    last,         \* the last per-claim pipeline run
    openConns     \* connections opened and not closed

vars == <<claims, providers, patients, fraud_flags, pc, op, claim_ids, limit,
          top_cases, idx, results, retval, error, last, openConns>>

tables == <<claims, providers, patients, fraud_flags>>

\* ----------------------------------------------------------- python values
PyNone == [type |-> "NoneType"]
EmptyDict == [k \in {} |-> 0]

\* f"... {claim_id} ..." : the text with the id formatted into it
FStr(text, arg) == [type |-> "str", text |-> text, arg |-> arg]
\* a completion text of the model
ModelText == [type |-> "str", text |-> "completion"]

\* dict.get(key, default)
Get(d, key, default) == IF key \in DOMAIN d THEN d[key] ELSE default

\* format spec ",.2f": thousands separator, two decimals
Money(n) == [fmt |-> ",.2f", value |-> n]

\* the outcome of one helper or pipeline run
Ret(value, opened, closed, calls) ==
    [outcome |-> "return", value |-> value, error |-> "",
     opened |-> opened, closed |-> closed, calls |-> calls]
Raise(kind, opened, closed, calls) ==
    [outcome |-> "raise", value |-> PyNone, error |-> kind,
     opened |-> opened, closed |-> closed, calls |-> calls]

NoRun == [kind |-> "none", claim_id |-> 0, run |-> Ret(PyNone, 0, 0, <<>>)]

\* ------------------------------------------------------ data access layer
\* SELECT * FROM <table> WHERE <key> = '<id>' : the matching rows
SelectByKey(table, id) ==
    IF id \in DOMAIN table /\ table[id] # NoRow THEN <<table[id]>> ELSE <<>>

\* result.iloc[0].to_dict() if a row matched, else None
FirstOrNone(rows) == IF Len(rows) = 0 THEN PyNone ELSE rows[1]

\* One connection, one query, close, then the row or None.  When the query
\* raises, the close() that follows it is not executed.
LookupRow(table, id, fail) ==
    IF fail THEN Raise("DatabaseError", 1, 0, <<>>)
    ELSE Ret(FirstOrNone(SelectByKey(table, id)), 1, 1, <<>>)

\* InvestigationAgent._get_claim_details / ExplanationAgent._get_claim_details
GetClaimDetails(claim_id, fail) == LookupRow(claims, claim_id, fail)

\* InvestigationAgent._get_fraud_flags
GetFraudFlags(claim_id, fail) == LookupRow(fraud_flags, claim_id, fail)

\* ExplanationAgent._get_fraud_info
GetFraudInfo(claim_id, fail) == LookupRow(fraud_flags, claim_id, fail)

\* ids of S in descending order
RECURSIVE SortDesc(_)
SortDesc(S) ==
    IF S = {} THEN <<>>
    ELSE LET m == CHOOSE x \in S : \A y \in S : y <= x
         IN <<m>> \o SortDesc(S \ {m})

Take(s, n) == SubSeq(s, 1, IF Len(s) < n THEN Len(s) ELSE n)

\* SELECT ... FROM claims WHERE <field> = '<id>' ORDER BY claim_date DESC LIMIT 10
RecentClaims(field, id) ==
    LET ids == {c \in ClaimIds : claims[c] # NoRow /\ claims[c][field] = id}
        ord == SortDesc({claims[c].claim_date : c \in ids})
    IN Take(ord, RecentLimit)

\* summary + recent claims of an entity: one connection, two queries, close
EntityContext(table, field, id, fail) ==
    IF fail THEN Raise("DatabaseError", 1, 0, <<>>)
    ELSE LET rows == SelectByKey(table, id)
         IN Ret([summary |-> IF Len(rows) > 0 THEN rows[1] ELSE EmptyDict,
                 recent_claims |-> RecentClaims(field, id)], 1, 1, <<>>)

\* InvestigationAgent._get_provider_context
GetProviderContext(provider_id, fail) ==
    EntityContext(providers, "provider_id", provider_id, fail)

\* InvestigationAgent._get_patient_context
GetPatientContext(patient_id, fail) ==
    EntityContext(patients, "patient_id", patient_id, fail)

\* -------------------------------------------------------- prompt builder
\* InvestigationAgent._build_investigation_prompt: fraud_flags[...] on None
\* is a TypeError; the provider / patient summaries are read with .get
BuildInvestigationPrompt(claim, provider_ctx, patient_ctx, flags) ==
    LET provider == provider_ctx.summary
        patient == patient_ctx.summary
    IN IF flags = PyNone THEN Raise("TypeError", 0, 0, <<>>)
       ELSE Ret([claim_id |-> claim.claim_id,
                 amount |-> Money(claim.claim_amount),
                 rules |-> flags.rules_triggered,
                 fraud_score |-> flags.fraud_score,
                 provider_total_claims |-> Get(provider, "total_claims", "N/A"),
                 provider_avg |-> Money(Get(provider, "avg_claim_amount", 0)),
                 provider_billed |-> Money(Get(provider, "total_billed", 0)),
                 provider_fraud |-> Get(provider, "fraud_claims", 0),
                 patient_total_claims |-> Get(patient, "total_claims", "N/A"),
                 patient_spent |-> Money(Get(patient, "total_spent", 0)),
                 patient_fraud |-> Get(patient, "fraud_claims", 0),
                 zscore |-> Get(claim, "amount_zscore", 0)], 0, 0, <<>>)

\* ExplanationAgent._build_explanation_prompt: claim[...] on None is a TypeError
BuildExplanationPrompt(claim, fraud_info) ==
    IF claim = PyNone THEN Raise("TypeError", 0, 0, <<>>)
    ELSE Ret([claim_id |-> claim.claim_id,
              amount |-> Money(claim.claim_amount),
              specialty |-> claim.provider_specialty,
              fraud_score |-> fraud_info.fraud_score,
              rules |-> fraud_info.rules_triggered,
              explanation |-> fraud_info.explanation], 0, 0, <<>>)

\* ---------------------------------------------------------- model gateway
\* chat sending the request a second time before reading the response
ChatTwice(messages, temperature, outcome) ==
    CASE outcome = "unreachable" ->
             Raise("APIConnectionError", 0, 0, <<temperature, temperature>>)
      [] outcome = "no_choices" ->
             Raise("IndexError", 0, 0, <<temperature, temperature>>)
      [] outcome = "null_content" ->
             Ret(PyNone, 0, 0, <<temperature, temperature>>)
      [] OTHER -> Ret(ModelText, 0, 0, <<temperature, temperature>>)

\* LLMClient.chat: one completion request, then choices[0].message.content
Chat(messages, temperature, outcome) ==
    CASE outcome = "unreachable" ->
             Raise("APIConnectionError", 0, 0, <<temperature>>)
      [] outcome = "no_choices" ->
             Raise("IndexError", 0, 0, <<temperature>>)
      [] outcome = "null_content" -> Ret(PyNone, 0, 0, <<temperature>>)
      [] OTHER -> Ret(ModelText, 0, 0, <<temperature>>)

\* LLMClient.analyze_fraud: the fixed template, sent at temperature 0.3
AnalyzeFraud(claim_data, context, outcome) ==
    Chat([claim_data |-> claim_data, context |-> context],
         AnalyzeTemperature, outcome)

\* ------------------------------------------------ per-claim pipelines
\* what the environment does during one pipeline run: which data-access
\* call raises (0: none) and what the completion service answers
InvestigateEnvs == [db : 0..4, model : ModelOutcomes]
ExplainEnvs == [db : 0..2, model : ModelOutcomes]

\* "Claim {claim_id} not found"
NotFoundDict(claim_id) == [error |-> FStr("Claim not found", claim_id)]

\* the dict investigate_claim returns after the analysis
InvestigationDict(claim_id, analysis, claim) ==
    [claim_id |-> claim_id, analysis |-> analysis,
     claim_amount |-> claim.claim_amount, provider |-> claim.provider_id,
     specialty |-> claim.provider_specialty]

\* InvestigationAgent.investigate_claim
InvestigateClaim(claim_id, env) ==
    LET r1 == GetClaimDetails(claim_id, env.db = 1) IN
    IF r1.outcome = "raise" THEN Raise(r1.error, 1, 0, <<>>)
    ELSE IF r1.value = PyNone THEN Ret(NotFoundDict(claim_id), 1, 1, <<>>)
    ELSE
    LET claim == r1.value
        r2 == GetProviderContext(claim.provider_id, env.db = 2) IN
    IF r2.outcome = "raise" THEN Raise(r2.error, 2, 1, <<>>)
    ELSE
    LET r3 == GetPatientContext(claim.patient_id, env.db = 3) IN
    IF r3.outcome = "raise" THEN Raise(r3.error, 3, 2, <<>>)
    ELSE
    LET r4 == GetFraudFlags(claim_id, env.db = 4) IN
    IF r4.outcome = "raise" THEN Raise(r4.error, 4, 3, <<>>)
    ELSE
    LET r5 == BuildInvestigationPrompt(claim, r2.value, r3.value, r4.value) IN
    IF r5.outcome = "raise" THEN Raise(r5.error, 4, 4, <<>>)
    ELSE
    LET r6 == AnalyzeFraud(r5.value, "", env.model) IN
    IF r6.outcome = "raise" THEN Raise(r6.error, 4, 4, r6.calls)
    ELSE Ret(InvestigationDict(claim_id, r6.value, claim), 4, 4, r6.calls)

\* ExplanationAgent.explain_fraud_case
ExplainFraudCase(claim_id, env) ==
    LET r1 == GetFraudInfo(claim_id, env.db = 1) IN
    IF r1.outcome = "raise" THEN Raise(r1.error, 1, 0, <<>>)
    ELSE IF r1.value = PyNone
    THEN Ret(FStr("No fraud information found for claim", claim_id), 1, 1, <<>>)
    ELSE
    LET r2 == GetClaimDetails(claim_id, env.db = 2) IN
    IF r2.outcome = "raise" THEN Raise(r2.error, 2, 1, <<>>)
    ELSE
    LET r3 == BuildExplanationPrompt(r2.value, r1.value) IN
    IF r3.outcome = "raise" THEN Raise(r3.error, 2, 2, <<>>)
    ELSE
    LET r4 == Chat(<<[role |-> "user", content |-> r3.value]>>,
                   ExplainTemperature, env.model) IN
    IF r4.outcome = "raise" THEN Raise(r4.error, 2, 2, r4.calls)
    ELSE Ret(r4.value, 2, 2, r4.calls)

\* connections left open by a run
Leaked(run) == run.opened - run.closed

\* ------------------------------------------------------------- the batch
\* report.insert(0, ...) in place of report.append(...)
ReportInsertFront(report, claim_id, explanation) ==
    <<[claim_id |-> claim_id, explanation |-> explanation]>> \o report

\* report.append({'claim_id': claim_id, 'explanation': explanation})
ReportAppend(report, claim_id, explanation) ==
    Append(report, [claim_id |-> claim_id, explanation |-> explanation])

\* results.append(investigation)
ResultsAppend(res, investigation) == Append(res, investigation)

\* print(f"  {investigation['analysis']}") : a KeyError on a dict without it
PrintAnalysis(investigation) ==
    IF "analysis" \in DOMAIN investigation THEN "" ELSE "KeyError"

\* SELECT claim_id, ... FROM fraud_flags WHERE fraud_detected = 1
\* ORDER BY fraud_score DESC LIMIT n.  The order of rows of equal fraud_score
\* is not determined by the query: every order that is descending in
\* fraud_score is a possible result.
Flagged ==
    {c \in ClaimIds : fraud_flags[c] # NoRow /\ fraud_flags[c].fraud_detected = 1}

TopCasesOrders(n) ==
    LET k == Cardinality(Flagged)
        all == {s \in [1..k -> Flagged] :
                  /\ \A i, j \in 1..k : i # j => s[i] # s[j]
                  /\ \A i, j \in 1..k : i < j =>
                       fraud_flags[s[i]].fraud_score >= fraud_flags[s[j]].fraud_score}
    IN {Take(s, n) : s \in all}

\* ---------------------------------------------------------------- Init
Init ==
    /\ claims \in [ClaimIds -> {NoRow} \cup {ClaimRow(c) : c \in ClaimIds}]
    /\ \A c \in ClaimIds : claims[c] # NoRow => claims[c].claim_id = c
    /\ providers \in [ProviderIds -> {NoRow} \cup {ProviderRow(p) : p \in ProviderIds}]
    /\ \A p \in ProviderIds : providers[p] # NoRow => providers[p].provider_id = p
    /\ patients \in [PatientIds -> {NoRow} \cup {PatientRow(u) : u \in PatientIds}]
    /\ \A u \in PatientIds : patients[u] # NoRow => patients[u].patient_id = u
    /\ fraud_flags \in [ClaimIds -> {NoRow} \cup UNION {FlagRows(c) : c \in ClaimIds}]
    /\ \A c \in ClaimIds : fraud_flags[c] # NoRow => fraud_flags[c].claim_id = c
    /\ pc = "idle"
    /\ op = "none"
    /\ claim_ids = <<>>
    /\ limit = 0
    /\ top_cases = <<>>
    /\ idx = 0
    /\ results = <<>>
    /\ retval = PyNone
    /\ error = ""
    /\ last = NoRun
    /\ openConns = 0

\* a caller may start a method when none is running; the model stops
\* starting calls once MaxOpen connections are left open
CanCall == pc = "idle" /\ openConns < MaxOpen

\* ------------------------------------------------------------- actions
\* a caller runs explain_fraud_case(claim_id)
CallExplainFraudCase ==
    /\ CanCall
    /\ \E c \in ClaimIds, env \in ExplainEnvs :
         LET run == ExplainFraudCase(c, env) IN
         /\ op' = "explain_fraud_case"
         /\ claim_ids' = <<c>>
         /\ last' = [kind |-> "explain", claim_id |-> c, run |-> run]
         /\ openConns' = openConns + Leaked(run)
         /\ pc' = IF run.outcome = "raise" THEN "raised" ELSE "returned"
         /\ error' = run.error
         /\ retval' = run.value
    /\ limit' = 0 /\ top_cases' = <<>> /\ idx' = 0 /\ results' = <<>>
    /\ UNCHANGED tables

\* a caller runs investigate_claim(claim_id)
CallInvestigateClaim ==
    /\ CanCall
    /\ \E c \in ClaimIds, env \in InvestigateEnvs :
         LET run == InvestigateClaim(c, env) IN
         /\ op' = "investigate_claim"
         /\ claim_ids' = <<c>>
         /\ last' = [kind |-> "investigate", claim_id |-> c, run |-> run]
         /\ openConns' = openConns + Leaked(run)
         /\ pc' = IF run.outcome = "raise" THEN "raised" ELSE "returned"
         /\ error' = run.error
         /\ retval' = run.value
    /\ limit' = 0 /\ top_cases' = <<>> /\ idx' = 0 /\ results' = <<>>
    /\ UNCHANGED tables

\* the claim_ids a caller may pass to generate_fraud_report
Batches == UNION {[1..n -> ClaimIds] : n \in 0..MaxBatch}

\* generate_fraud_report(claim_ids): report = [], enter the for loop
CallGenerateFraudReport ==
    /\ CanCall
    /\ \E ids \in Batches : claim_ids' = ids
    /\ op' = "generate_fraud_report"
    /\ pc' = "report_loop"
    /\ idx' = 1
    /\ results' = <<>>
    /\ retval' = PyNone /\ error' = "" /\ last' = NoRun
    /\ limit' = 0 /\ top_cases' = <<>>
    /\ UNCHANGED <<tables, openConns>>

\* one iteration of generate_fraud_report's loop
ReportIteration ==
    /\ pc = "report_loop"
    /\ idx <= Len(claim_ids)
    /\ \E env \in ExplainEnvs :
         LET run == ExplainFraudCase(claim_ids[idx], env) IN
         /\ last' = [kind |-> "explain", claim_id |-> claim_ids[idx], run |-> run]
         /\ openConns' = openConns + Leaked(run)
         /\ IF run.outcome = "raise"
            THEN /\ pc' = "raised"
                 /\ error' = run.error
                 /\ UNCHANGED <<results, idx>>
            ELSE /\ results' = ReportAppend(results, claim_ids[idx], run.value)
                 /\ idx' = idx + 1
                 /\ UNCHANGED <<pc, error>>
    /\ UNCHANGED <<tables, op, claim_ids, limit, top_cases, retval>>

\* generate_fraud_report: the loop is over, return report
ReportReturn ==
    /\ pc = "report_loop"
    /\ idx > Len(claim_ids)
    /\ pc' = "returned"
    /\ retval' = results
    /\ UNCHANGED <<tables, op, claim_ids, limit, top_cases, idx, results,
                   error, last, openConns>>

\* investigate_top_cases(limit): the ranking query, results = [], the loop
CallInvestigateTopCases ==
    /\ CanCall
    /\ op' = "investigate_top_cases"
    /\ \E n \in 1..MaxLimit, fail \in BOOLEAN :
         /\ limit' = n
         /\ IF fail
            THEN /\ pc' = "raised"
                 /\ error' = "DatabaseError"
                 /\ openConns' = openConns + 1
                 /\ top_cases' = <<>>
            ELSE /\ pc' = "top_loop"
                 /\ error' = ""
                 /\ openConns' = openConns
                 /\ top_cases' \in TopCasesOrders(n)
    /\ idx' = 1
    /\ results' = <<>>
    /\ claim_ids' = <<>> /\ retval' = PyNone /\ last' = NoRun
    /\ UNCHANGED tables

\* one iteration of investigate_top_cases' loop
TopIteration ==
    /\ pc = "top_loop"
    /\ idx <= Len(top_cases)
    /\ \E env \in InvestigateEnvs :
         LET run == InvestigateClaim(top_cases[idx], env) IN
         /\ last' = [kind |-> "investigate", claim_id |-> top_cases[idx], run |-> run]
         /\ openConns' = openConns + Leaked(run)
         /\ IF run.outcome = "raise"
            THEN /\ pc' = "raised"
                 /\ error' = run.error
                 /\ UNCHANGED <<results, idx>>
            ELSE /\ results' = ResultsAppend(results, run.value)
                 /\ IF PrintAnalysis(run.value) # ""
                    THEN /\ pc' = "raised"
                         /\ error' = PrintAnalysis(run.value)
                         /\ UNCHANGED idx
                    ELSE /\ idx' = idx + 1
                         /\ UNCHANGED <<pc, error>>
    /\ UNCHANGED <<tables, op, claim_ids, limit, top_cases, retval>>

\* investigate_top_cases: the loop is over, return results
TopReturn ==
    /\ pc = "top_loop"
    /\ idx > Len(top_cases)
    /\ pc' = "returned"
    /\ retval' = results
    /\ UNCHANGED <<tables, op, claim_ids, limit, top_cases, idx, results,
                   error, last, openConns>>

\* the method has returned or raised: the caller goes on and may call again
CallerResumes ==
    /\ pc \in {"returned", "raised"}
    /\ pc' = "idle"
    /\ op' = "none"
    /\ claim_ids' = <<>>
    /\ limit' = 0
    /\ top_cases' = <<>>
    /\ idx' = 0
    /\ results' = <<>>
    /\ retval' = PyNone
    /\ error' = ""
    /\ last' = NoRun
    /\ UNCHANGED <<tables, openConns>>

Next ==
    \/ CallExplainFraudCase
    \/ CallInvestigateClaim
    \/ CallGenerateFraudReport
    \/ ReportIteration
    \/ ReportReturn
    \/ CallInvestigateTopCases
    \/ TopIteration
    \/ TopReturn
    \/ CallerResumes

Spec == Init /\ [][Next]_vars

\* The explanation agent alone.  It never reads providers or patients, so
\* these two tables are held complete.
InitReport ==
    /\ Init
    /\ \A p \in ProviderIds : providers[p] # NoRow
    /\ \A u \in PatientIds : patients[u] # NoRow

NextReport ==
    \/ CallExplainFraudCase
    \/ CallGenerateFraudReport
    \/ ReportIteration
    \/ ReportReturn
    \/ CallerResumes

SpecReport == InitReport /\ [][NextReport]_vars

\* The two single-claim methods alone.
NextCalls ==
    \/ CallExplainFraudCase
    \/ CallInvestigateClaim
    \/ CallerResumes

SpecCalls == Init /\ [][NextCalls]_vars

\* ------------------------------------------------------------ properties
ClaimPresent(c) == claims[c] # NoRow
FlagPresent(c) == fraud_flags[c] # NoRow

\* failures of one claim's pipeline named by the error taxonomy: the claim
\* is absent (TypeError on None), the backend is unreachable, the response
\* holds no completion
PerClaimFailures == {"TypeError", "APIConnectionError", "IndexError"}

\* failures of the environment rather than of the data of the claim
EnvironmentFailures == {"DatabaseError", "APIConnectionError", "IndexError"}

\* C1: generate_fraud_report never aborts early: no per-claim failure (claim
\* absent, backend unreachable, no completion in the response) leaves the
\* method as an exception, and what it returns has one entry per input id.
C1_BatchNeverAborts ==
    op = "generate_fraud_report" =>
        /\ error \notin PerClaimFailures
        /\ (pc = "returned" => Len(retval) = Len(claim_ids))

\* C2: batch order preservation: while generate_fraud_report runs, the report
\* built so far lists the claim_ids of the input in input order, and the
\* returned report has one entry per input id, the i-th carrying the i-th id.
C2_BatchOrderPreserved ==
    op = "generate_fraud_report" =>
        /\ Len(results) <= Len(claim_ids)
        /\ \A i \in 1..Len(results) : results[i].claim_id = claim_ids[i]
        /\ (pc = "returned" =>
              /\ Len(retval) = Len(claim_ids)
              /\ \A i \in 1..Len(retval) : retval[i].claim_id = claim_ids[i])

\* a batch of two different ids has been returned
C2_Witness ==
    /\ op = "generate_fraud_report"
    /\ pc = "returned"
    /\ Len(claim_ids) >= 2
    /\ claim_ids[1] # claim_ids[2]
    /\ Len(retval) = Len(claim_ids)

\* C3: in investigate_top_cases, once investigate_claim has returned for a
\* ranked claim (the claim-not-found value included), the batch goes on: it
\* is not left by an exception.
C3_TopCasesSurvivesNotFound ==
    (/\ op = "investigate_top_cases"
     /\ last.kind = "investigate"
     /\ last.run.outcome = "return") => pc # "raised"

\* C4: every report of investigate_claim, alone or as an entry of a batch,
\* carries the claim_id it was made for, the claim-not-found report included.
C4_ReportsCarryClaimId ==
    /\ \A i \in 1..Len(results) : "claim_id" \in DOMAIN results[i]
    /\ (op = "investigate_claim" /\ pc = "returned") =>
           "claim_id" \in DOMAIN retval

\* the ranking the specification asks for: fraud_score descending, ties by
\* claim_id ascending, the first n
RankedDeterministic(n) ==
    LET k == Cardinality(Flagged)
        before(a, b) ==
            \/ fraud_flags[a].fraud_score > fraud_flags[b].fraud_score
            \/ /\ fraud_flags[a].fraud_score = fraud_flags[b].fraud_score
               /\ a < b
        s == CHOOSE t \in [1..k -> Flagged] :
                 \A i, j \in 1..k : i < j => before(t[i], t[j])
    IN Take(s, n)

\* C5: ranking determinism: the claims investigate_top_cases investigates are
\* the top `limit` flagged claims by fraud_score descending, ties broken by
\* claim_id ascending.
C5_RankingDeterministic ==
    (op = "investigate_top_cases" /\ pc # "raised") =>
        top_cases = RankedDeterministic(limit)

\* C6: for a claim_id with no record in claims, explain_fraud_case returns a
\* value; the absent claim never makes it raise (a failing query aside).
C6_ExplainAbsentClaimIsValue ==
    (/\ op = "explain_fraud_case"
     /\ ~ClaimPresent(claim_ids[1])
     /\ error # "DatabaseError") => pc = "returned"

\* C7: for a claim present in claims and without a fraud_flags record,
\* investigate_claim does not fail while building the prompt.
C7_UnflaggedClaimInvestigated ==
    (/\ op = "investigate_claim"
     /\ ClaimPresent(claim_ids[1])
     /\ ~FlagPresent(claim_ids[1])
     /\ error # "DatabaseError") => pc = "returned"

\* C8: missing-entity resilience: for a claim present in claims whose provider
\* or patient has no record, investigate_claim returns a result whenever the
\* data source and the backend answer.
C8_MissingEntityResilience ==
    (/\ op = "investigate_claim"
     /\ ClaimPresent(claim_ids[1])
     /\ \/ providers[claims[claim_ids[1]].provider_id] = NoRow
        \/ patients[claims[claim_ids[1]].patient_id] = NoRow
     /\ error \notin EnvironmentFailures) => pc = "returned"

\* C9: no connection opened by a data-access call stays open, whether the
\* call completed or its query raised.
C9_ConnectionsReleased == openConns = 0

\* C10: the backend is called only after the lookup succeeded and once per
\* pipeline run: no request when investigate_claim finds no claim or
\* explain_fraud_case finds no fraud_flags record; one request, at 0.3 for an
\* investigation and at 0.7 for an explanation, when the run returns what the
\* backend answered.
C10_ModelCalledOnceAfterLookup ==
    /\ (last.kind = "investigate" /\ ~ClaimPresent(last.claim_id)) =>
           last.run.calls = <<>>
    /\ (last.kind = "explain" /\ ~FlagPresent(last.claim_id)) =>
           last.run.calls = <<>>
    /\ (/\ last.kind = "investigate"
        /\ last.run.outcome = "return"
        /\ "analysis" \in DOMAIN last.run.value) =>
           last.run.calls = <<AnalyzeTemperature>>
    /\ (/\ last.kind = "explain"
        /\ last.run.outcome = "return"
        /\ FlagPresent(last.claim_id)) =>
           last.run.calls = <<ExplainTemperature>>
    /\ Len(last.run.calls) <= 1

\* an investigation has returned the analysis of the backend
C10_Witness ==
    /\ last.kind = "investigate"
    /\ last.run.outcome = "return"
    /\ "analysis" \in DOMAIN last.run.value
    /\ last.run.value.analysis = ModelText
    /\ last.run.calls = <<AnalyzeTemperature>>

====
